---- MODULE Spec2Model ----
(***************************************************************************)
(* Hand Gesture Backend: backend/model_loader.py (the inference engine,    *)
(* built once at import) and backend/app.py (the FastAPI service: GET /    *)
(* and POST /predict/).                                                    *)
(*                                                                         *)
(* Python values are records of one shape, so that values of different     *)
(* Python types can be compared and collected:                             *)
(*   t      the Python type: "None", "int", "float", "str", "list",        *)
(*          "tuple", "dict"                                                *)
(*   n, d   an int is n (d = 1); a float is the rational n/d in lowest     *)
(*          terms, d > 0                                                   *)
(*   s      the characters of a str                                        *)
(*   keys   the keys of a dict (each a sequence of characters), in         *)
(*          insertion order                                                *)
(*   items  the elements of a list or tuple, or the values of a dict       *)
(* A text is a sequence of one-character strings.  The em dash of the 500  *)
(* detail is written "--".                                                 *)
(***************************************************************************)
EXTENDS Integers, Sequences, FiniteSets, TLC

VARIABLES
    phase,          \* "boot" (before import), "serving", "aborted" (import raised)
    fs,             \* artifacts on disk and the host: class_map.json, efficient_b2.pth, cuda
    device,         \* model_loader.device
    class_map,      \* model_loader.class_map
    idx_to_class,   \* model_loader.idx_to_class
    num_classes,    \* model_loader.num_classes
    model,          \* model_loader.model
    preprocess,     \* model_loader.preprocess
    req,            \* the requests in flight or answered, one per connection slot
    loop,           \* the slot whose handler runs on the event loop, 0 when it is free
    log,            \* backend/error.log: the chunks written, in order
    sent500,        \* how many 500 responses POST /predict/ has sent
    arrivals        \* how many requests have arrived

vars == <<phase, fs, device, class_map, idx_to_class, num_classes, model,
          preprocess, req, loop, log, sent500, arrivals>>

engine_state == <<device, class_map, idx_to_class, num_classes, model, preprocess>>

(***************************************************************************)
(* Bounds                                                                  *)
(***************************************************************************)
NumSlots == 2
MaxArrivals == 3
MaxClasses == 2
MaxFeat == 1

Slots == 1..NumSlots

(***************************************************************************)
(* Python values                                                           *)
(***************************************************************************)
PyVal(t, n, d, s, keys, items) ==
    [t |-> t, n |-> n, d |-> d, s |-> s, keys |-> keys, items |-> items]

PyNone == PyVal("None", 0, 1, <<>>, <<>>, <<>>)
PyInt(n) == PyVal("int", n, 1, <<>>, <<>>, <<>>)
PyStr(s) == PyVal("str", 0, 1, s, <<>>, <<>>)
PyList(items) == PyVal("list", 0, 1, <<>>, <<>>, items)
PyTuple(items) == PyVal("tuple", 0, 1, <<>>, <<>>, items)
PyDict(keys, items) == PyVal("dict", 0, 1, <<>>, keys, items)

Abs(n) == IF n < 0 THEN -n ELSE n

RECURSIVE Gcd(_, _)
Gcd(a, b) == IF b = 0 THEN a ELSE Gcd(b, a % b)

RECURSIVE Pow(_, _)
Pow(b, e) == IF e = 0 THEN 1 ELSE b * Pow(b, e - 1)

\* A Python float of value n/d (d > 0), in lowest terms.
PyFloat(n, d) ==
    LET g == Gcd(Abs(n), d)
    IN  PyVal("float", n \div g, d \div g, <<>>, <<>>, <<>>)

KeyPrediction == <<"p", "r", "e", "d", "i", "c", "t", "i", "o", "n">>
KeyConfidence == <<"c", "o", "n", "f", "i", "d", "e", "n", "c", "e">>
KeyLabel == <<"l", "a", "b", "e", "l">>
Rock == <<"r", "o", "c", "k">>
Paper == <<"p", "a", "p", "e", "r">>
Scissors == <<"s", "c", "i", "s", "s", "o", "r", "s">>

Range(q) == {q[i] : i \in 1..Len(q)}

\* key in d
HasKey(dct, key) == \E i \in 1..Len(dct.keys) : dct.keys[i] = key

\* d[key], for a key that is in d
DictGet(dct, key) ==
    dct.items[CHOOSE i \in 1..Len(dct.keys) : dct.keys[i] = key]

(***************************************************************************)
(* float(x): app.py line 59                                                *)
(***************************************************************************)
Digits == <<"0", "1", "2", "3", "4", "5", "6", "7", "8", "9">>

IsDigit(c) == \E i \in 1..10 : Digits[i] = c

DigitVal(c) == (CHOOSE i \in 1..10 : Digits[i] = c) - 1

IsSpace(c) == c \in {" ", "\t", "\n"}

RECURSIVE LStrip(_)
LStrip(s) ==
    IF s # <<>> /\ IsSpace(Head(s)) THEN LStrip(Tail(s)) ELSE s

RECURSIVE RStrip(_)
RStrip(s) ==
    IF s # <<>> /\ IsSpace(s[Len(s)]) THEN RStrip(SubSeq(s, 1, Len(s) - 1)) ELSE s

RECURSIVE DigitsValue(_)
DigitsValue(s) ==
    IF s = <<>> THEN 0
    ELSE 10 * DigitsValue(SubSeq(s, 1, Len(s) - 1)) + DigitVal(s[Len(s)])

AllDigits(s) == \A i \in 1..Len(s) : IsDigit(s[i])

\* float(s) of a str: surrounding whitespace is stripped, then an optional
\* sign, then digits with at most one decimal point and at least one digit.
\* (Exponents, "inf", "nan" and digit-group underscores are not in the texts
\* the model draws.)  ok = FALSE is ValueError.
ParseFloat(s) ==
    LET t == RStrip(LStrip(s))
        signed == t # <<>> /\ Head(t) \in {"-", "+"}
        sign == IF t # <<>> /\ Head(t) = "-" THEN -1 ELSE 1
        body == IF signed THEN Tail(t) ELSE t
        dots == {i \in 1..Len(body) : body[i] = "."}
        dot == IF dots = {} THEN Len(body) + 1
               ELSE CHOOSE i \in dots : \A j \in dots : i <= j
        whole == SubSeq(body, 1, dot - 1)
        frac == SubSeq(body, dot + 1, Len(body))
        ok == /\ Cardinality(dots) <= 1
              /\ AllDigits(whole) /\ AllDigits(frac)
              /\ Len(whole) + Len(frac) >= 1
    IN  IF ok
        THEN [ok |-> TRUE,
              value |-> PyFloat(sign * DigitsValue(whole \o frac), Pow(10, Len(frac)))]
        ELSE [ok |-> FALSE, value |-> PyNone]

\* float(x): a float is itself, an int converts, a str is parsed (ValueError
\* when it is no number); None and the containers raise TypeError.
FloatConv(x) ==
    CASE x.t = "float" -> [raised |-> "", value |-> x]
      [] x.t = "int" -> [raised |-> "", value |-> PyFloat(x.n, 1)]
      [] x.t = "str" ->
            LET p == ParseFloat(x.s)
            IN  IF p.ok THEN [raised |-> "", value |-> p.value]
                ELSE [raised |-> "ValueError", value |-> PyNone]
      [] OTHER -> [raised |-> "TypeError", value |-> PyNone]

(***************************************************************************)
(* str(x): app.py line 62                                                  *)
(***************************************************************************)
RECURSIVE NatText(_)
NatText(n) ==
    IF n < 10 THEN <<Digits[n + 1]>>
    ELSE NatText(n \div 10) \o <<Digits[(n % 10) + 1]>>

IntText(n) == IF n < 0 THEN <<"-">> \o NatText(-n) ELSE NatText(n)

RECURSIVE PadLeft(_, _)
PadLeft(s, width) == IF Len(s) >= width THEN s ELSE PadLeft(<<"0">> \o s, width)

\* repr of the float n/d whose decimal expansion is finite and short (every
\* float the model draws): the digits, with ".0" for a whole number.
FloatText(x) ==
    LET k == CHOOSE e \in 0..6 : /\ Pow(10, e) % x.d = 0
                                 /\ \A f \in 0..6 : Pow(10, f) % x.d = 0 => e <= f
        m == (Abs(x.n) * Pow(10, k)) \div x.d
        whole == NatText(m \div Pow(10, k))
        frac == IF k = 0 THEN <<"0">> ELSE PadLeft(NatText(m % Pow(10, k)), k)
    IN  (IF x.n < 0 THEN <<"-">> ELSE <<>>) \o whole \o <<".">> \o frac

\* repr of a value that is not a container
ScalarRepr(x) ==
    CASE x.t = "None" -> <<"N", "o", "n", "e">>
      [] x.t = "int" -> IntText(x.n)
      [] x.t = "float" -> FloatText(x)
      [] x.t = "str" -> <<"'">> \o x.s \o <<"'">>
      [] OTHER -> <<"?">>

RECURSIVE JoinRepr(_)
JoinRepr(items) ==
    IF items = <<>> THEN <<>>
    ELSE IF Len(items) = 1 THEN ScalarRepr(items[1])
    ELSE ScalarRepr(items[1]) \o <<",", " ">> \o JoinRepr(Tail(items))

RECURSIVE JoinDict(_, _)
JoinDict(keys, items) ==
    IF keys = <<>> THEN <<>>
    ELSE LET one == <<"'">> \o keys[1] \o <<"'", ":", " ">> \o ScalarRepr(items[1])
         IN  IF Len(keys) = 1 THEN one
             ELSE one \o <<",", " ">> \o JoinDict(Tail(keys), Tail(items))

\* str(x), for a value whose elements are not containers
Str(x) ==
    CASE x.t = "str" -> x.s
      [] x.t = "list" -> <<"[">> \o JoinRepr(x.items) \o <<"]">>
      [] x.t = "tuple" ->
            <<"(">> \o JoinRepr(x.items)
                    \o (IF Len(x.items) = 1 THEN <<",">> ELSE <<>>) \o <<")">>
      [] x.t = "dict" -> <<"{">> \o JoinDict(x.keys, x.items) \o <<"}">>
      [] OTHER -> ScalarRepr(x)

(***************************************************************************)
(* model_loader.py: module initialisation (lines 10-47)                    *)
(***************************************************************************)
LabelNames == <<Rock, Paper, Scissors>>

RECURSIVE DenseIndices(_)
DenseIndices(k) == IF k = 0 THEN <<>> ELSE Append(DenseIndices(k - 1), PyInt(k - 1))

\* {"rock": 0, "paper": 1, ...}: the first k label names, indexed from 0.
DenseVocabulary(k) == PyDict(SubSeq(LabelNames, 1, k), DenseIndices(k))

\* {"rock": 1}: one label, and no label for index 0.
GapVocabulary == PyDict(<<Rock>>, <<PyInt(1)>>)

\* {"rock": 0, "paper": 0}: two labels on one index.
DuplicateVocabulary == PyDict(<<Rock, Paper>>, <<PyInt(0), PyInt(0)>>)

\* {"rock": "0"}: the index is a str.
StrVocabulary == PyDict(<<Rock>>, <<PyStr(<<"0">>)>>)

\* {"rock": []}: the index is an array (a list cannot be hashed).
ListVocabulary == PyDict(<<Rock>>, <<PyList(<<>>)>>)

\* ["rock"]: an array in the place of the object.
ArrayDocument == PyList(<<PyStr(Rock)>>)

\* The documents class_map.json may hold.
JsonDocuments ==
    {DenseVocabulary(k) : k \in 1..MaxClasses}
    \cup {GapVocabulary, DuplicateVocabulary, StrVocabulary, ListVocabulary, ArrayDocument}

ClassMapFiles ==
    {[state |-> "missing", json |-> PyNone],
     [state |-> "unparsable", json |-> PyNone]}
    \cup {[state |-> "json", json |-> j] : j \in JsonDocuments}

\* efficient_b2.pth: absent, not a pickle, or a state_dict whose classifier
\* layer has `out` rows.
ModelFiles ==
    {[state |-> "missing", out |-> 0], [state |-> "corrupt", out |-> 0]}
    \cup {[state |-> "state_dict", out |-> k] : k \in 1..MaxClasses}

Raised(name) == [raised |-> name, value |-> PyNone]

Returned(v) == [raised |-> "", value |-> v]

\* lines 19-20: open(CLASS_MAP_PATH) and json.load(f)
LoadClassMap(file) ==
    CASE file.state = "missing" -> Raised("FileNotFoundError")
      [] file.state = "unparsable" -> Raised("JSONDecodeError")
      [] OTHER -> Returned(file.json)

\* a == b for two Python values: numbers compare by value, the rest by
\* type and content.
PyEq(a, b) ==
    IF a.t \in {"int", "float"} /\ b.t \in {"int", "float"}
    THEN a.n * b.d = b.n * a.d
    ELSE a = b

Hashable(v) == v.t \notin {"list", "dict"}

NoDict == [keys |-> <<>>, vals |-> <<>>]

\* d[k] = v on a dict keyed by Python values: an equal key keeps its place
\* and takes the new value, a new key is appended.
DictSet(dct, k, v) ==
    IF \E i \in 1..Len(dct.keys) : PyEq(dct.keys[i], k)
    THEN LET i == CHOOSE j \in 1..Len(dct.keys) : PyEq(dct.keys[j], k)
         IN  [dct EXCEPT !.vals[i] = v]
    ELSE [keys |-> Append(dct.keys, k), vals |-> Append(dct.vals, v)]

RECURSIVE InvertFrom(_, _, _)
InvertFrom(cm, i, acc) ==
    IF i > Len(cm.keys) THEN acc
    ELSE InvertFrom(cm, i + 1, DictSet(acc, cm.items[i], cm.keys[i]))

\* line 22: {v: k for k, v in class_map.items()}
InvertClassMap(cm) ==
    IF cm.t # "dict" THEN [raised |-> "AttributeError", value |-> NoDict]
    ELSE IF \E i \in 1..Len(cm.items) : ~Hashable(cm.items[i])
    THEN [raised |-> "TypeError", value |-> NoDict]
    ELSE [raised |-> "", value |-> InvertFrom(cm, 1, NoDict)]

NoModel == [out |-> 0, training |-> FALSE, loaded |-> FALSE, device |-> "none"]

\* lines 27-31: timm.create_model("efficientnet_b2", pretrained=False,
\* num_classes=num_classes): a fresh module is in training mode.
CreateModel(n) == [out |-> n, training |-> TRUE, loaded |-> FALSE, device |-> "cpu"]

\* line 34: torch.load(MODEL_PATH, map_location=device)
TorchLoad(file) ==
    CASE file.state = "missing" -> [raised |-> "FileNotFoundError", out |-> 0]
      [] file.state = "corrupt" -> [raised |-> "UnpicklingError", out |-> 0]
      [] OTHER -> [raised |-> "", out |-> file.out]

\* line 35: model.load_state_dict(state_dict), strict: a classifier of
\* another shape is a RuntimeError.
LoadStateDict(m, state_dict) ==
    IF state_dict.out # m.out
    THEN [raised |-> "RuntimeError", model |-> m]
    ELSE [raised |-> "", model |-> [m EXCEPT !.loaded = TRUE]]

\* line 16
SelectDevice(cuda) == IF cuda THEN "cuda" ELSE "cpu"

\* line 37: model.to(device)
ModelTo(m, dev) == [m EXCEPT !.device = dev]

\* ModelEval with the call of line 38 left out: the model stays in training
\* mode.
ModelEval_Skipped(m) == m

\* line 38: model.eval()
ModelEval(m) == [m EXCEPT !.training = FALSE]

\* lines 41-47
Preprocess == <<"Resize(224,224)", "ToTensor", "Normalize">>

Unset ==
    [raised |-> "", device |-> "none", class_map |-> PyNone, idx_to_class |-> NoDict,
     num_classes |-> 0, model |-> NoModel, preprocess |-> <<>>]

\* The import of model_loader, statement by statement: the module's globals
\* when it completes, or the exception that ends it.
ModuleInit(files) ==
    LET dev == SelectDevice(files.cuda)
        cm == LoadClassMap(files.class_map_file)
        inv == InvertClassMap(cm.value)
        n == Len(cm.value.keys)
        sd == TorchLoad(files.model_file)
        ld == LoadStateDict(CreateModel(n), sd)
    IN  IF cm.raised # "" THEN [Unset EXCEPT !.raised = cm.raised]
        ELSE IF inv.raised # "" THEN [Unset EXCEPT !.raised = inv.raised]
        ELSE IF sd.raised # "" THEN [Unset EXCEPT !.raised = sd.raised]
        ELSE IF ld.raised # "" THEN [Unset EXCEPT !.raised = ld.raised]
        ELSE [raised |-> "", device |-> dev, class_map |-> cm.value,
              idx_to_class |-> inv.value, num_classes |-> n,
              model |-> ModelEval(ModelTo(ld.model, dev)),
              preprocess |-> Preprocess]

(***************************************************************************)
(* model_loader.py: predict_image (lines 49-61)                            *)
(***************************************************************************)
\* An image is its colour mode and what the network sees in it: feat, the
\* content of its pixels.
Images == [mode : {"RGB", "L"}, feat : 0..MaxFeat]

\* Image.convert("RGB"): the pixels are kept, the mode becomes RGB.
ConvertRGB(img) == [img EXCEPT !.mode = "RGB"]

\* line 53: preprocess(pil_image).unsqueeze(0).to(device)
ToTensor(img, pipeline, dev) ==
    [shape |-> <<1, 3, 224, 224>>, feat |-> img.feat, device |-> dev]

\* line 56: model(img_t), the forward pass: one score per output row.  The
\* network is opaque; its scores are a fixed function of the pixels, the
\* row that (feat mod out) names scoring highest.  In training mode dropout
\* is active and `noise`, the units dropped, moves the scores.
Forward(m, x, noise) ==
    [i \in 1..m.out |-> IF i = ((x.feat + noise) % m.out) + 1 THEN 1 ELSE 0]

\* The dropout masks a forward pass may draw.
DropoutNoise(m) == IF m.training THEN {0, 1} ELSE {0}

RECURSIVE SumPow(_, _)
SumPow(scores, i) ==
    IF i > Len(scores) THEN 0 ELSE Pow(2, scores[i]) + SumPow(scores, i + 1)

\* line 57: torch.softmax(output, dim=1)[0], as numerators over one common
\* denominator (base 2 in the place of e: as monotone, and sums to 1).
Softmax(scores) ==
    [num |-> [i \in 1..Len(scores) |-> Pow(2, scores[i])], den |-> SumPow(scores, 1)]

\* line 58: torch.max(probs, dim=0): the greatest probability and the index
\* (from 0) of its first occurrence.
TorchMax(probs) ==
    LET i == CHOOSE j \in 1..Len(probs.num) :
                 /\ \A k \in 1..Len(probs.num) : probs.num[k] <= probs.num[j]
                 /\ \A k \in 1..(j - 1) : probs.num[k] < probs.num[j]
    IN  [conf |-> PyFloat(probs.num[i], probs.den), idx |-> i - 1]

\* line 60: idx_to_class[int(idx.item())]
LookupLabel(table, idx) ==
    IF \E i \in 1..Len(table.keys) : PyEq(table.keys[i], PyInt(idx))
    THEN Returned(PyStr(table.vals[CHOOSE i \in 1..Len(table.keys) :
                                       PyEq(table.keys[i], PyInt(idx))]))
    ELSE Raised("KeyError")

\* predict_image(pil_image) on the module's globals; noise is the dropout
\* mask of this forward pass.
predict_image(pil_image, g_model, g_idx_to_class, g_preprocess, g_device, noise) ==
    LET img == IF pil_image.mode # "RGB" THEN ConvertRGB(pil_image) ELSE pil_image
        img_t == ToTensor(img, g_preprocess, g_device)
        output == Forward(g_model, img_t, noise)
        top == TorchMax(Softmax(output))
        label == LookupLabel(g_idx_to_class, top.idx)
    IN  IF label.raised # "" THEN label
        ELSE Returned(PyDict(<<KeyPrediction, KeyConfidence>>, <<label.value, top.conf>>))

(***************************************************************************)
(* app.py: the service                                                     *)
(***************************************************************************)
KeyStatus == <<"s", "t", "a", "t", "u", "s">>
BackendRunning == <<"b", "a", "c", "k", "e", "n", "d", " ", "r", "u", "n", "n", "i", "n", "g">>

\* What `await file.read()` meets: the payload's bytes (none, bytes that are
\* no image, or an image's encoding), or, for a payload that is not empty,
\* a read that raises.
Uploads ==
    {[readable |-> TRUE, bytes |-> "empty", image |-> [mode |-> "RGB", feat |-> 0]],
     [readable |-> TRUE, bytes |-> "junk", image |-> [mode |-> "RGB", feat |-> 0]],
     [readable |-> FALSE, bytes |-> "junk", image |-> [mode |-> "RGB", feat |-> 0]]}
    \cup {[readable |-> TRUE, bytes |-> "image", image |-> img] : img \in Images}

NoUpload == [readable |-> TRUE, bytes |-> "empty", image |-> [mode |-> "RGB", feat |-> 0]]

\* The engine predict calls is model_loader.predict_image; NoStub marks it.
\* Any other value stands for an engine put in its place that returns that
\* value (app.py line 10 states what an engine must return, lines 56-62
\* accept more).
NoStub == PyVal("model_loader", 0, 1, <<>>, <<>>, <<>>)

NoResponse == [status |-> 0, detail |-> "", body |-> PyNone]

IdleRequest ==
    [kind |-> "none", pc |-> "idle", upload |-> NoUpload, stub |-> NoStub,
     image |-> [mode |-> "RGB", feat |-> 0], response |-> NoResponse]

\* An exit of a stretch of the handler: a return, a raise, or the call of
\* the engine with the decoded image.
ExitReturn(body) ==
    [how |-> "return", exc |-> "", status |-> 200, detail |-> "", body |-> body,
     image |-> [mode |-> "RGB", feat |-> 0]]

ExitRaise(exc) ==
    [how |-> "raise", exc |-> exc, status |-> 0, detail |-> "", body |-> PyNone,
     image |-> [mode |-> "RGB", feat |-> 0]]

\* raise HTTPException(status_code=..., detail=...)
ExitHTTPException(status, detail) ==
    [how |-> "raise", exc |-> "HTTPException", status |-> status, detail |-> detail,
     body |-> PyNone, image |-> [mode |-> "RGB", feat |-> 0]]

ExitCallEngine(img) ==
    [how |-> "call", exc |-> "", status |-> 0, detail |-> "", body |-> PyNone,
     image |-> img]

\* line 50: Image.open(io.BytesIO(contents))
ImageOpen(upload) ==
    IF upload.bytes = "image" THEN [raised |-> "", image |-> upload.image]
    ELSE [raised |-> "UnidentifiedImageError", image |-> upload.image]

\* ReadAndDecode with the decode failure turned into a client error.
ReadAndDecode_RejectsJunk(upload) ==
    IF ~upload.readable THEN ExitRaise("OSError")
    ELSE IF upload.bytes = "empty" THEN ExitHTTPException(400, "Empty file")
    ELSE LET opened == ImageOpen(upload)
         IN  IF opened.raised # "" THEN ExitHTTPException(400, "Invalid image")
             ELSE ExitCallEngine(ConvertRGB(opened.image))

\* lines 46-50: the try block up to the call of the engine.
ReadAndDecode(upload) ==
    IF ~upload.readable THEN ExitRaise("OSError")
    ELSE IF upload.bytes = "empty" THEN ExitHTTPException(400, "Empty file")
    ELSE LET opened == ImageOpen(upload)
         IN  IF opened.raised # "" THEN ExitRaise(opened.raised)
             ELSE ExitCallEngine(ConvertRGB(opened.image))

\* ShapeResult with the second element taken as it is, float() left out.
ShapeResult_NoFloat(result) ==
    IF result.t = "dict" /\ HasKey(result, KeyPrediction)
    THEN ExitReturn(result)
    ELSE IF result.t \in {"list", "tuple"} /\ Len(result.items) >= 2
    THEN ExitReturn(PyDict(<<KeyPrediction, KeyConfidence>>,
                           <<result.items[1], result.items[2]>>))
    ELSE ExitReturn(PyDict(<<KeyPrediction, KeyConfidence>>,
                           <<PyStr(Str(result)), PyFloat(0, 1)>>))

\* ShapeResult with the fallback's value returned as it is, str() left out.
ShapeResult_NoStr(result) ==
    IF result.t = "dict" /\ HasKey(result, KeyPrediction)
    THEN ExitReturn(result)
    ELSE IF result.t \in {"list", "tuple"} /\ Len(result.items) >= 2
    THEN LET conf == FloatConv(result.items[2])
         IN  IF conf.raised # "" THEN ExitRaise(conf.raised)
             ELSE ExitReturn(PyDict(<<KeyPrediction, KeyConfidence>>,
                                    <<result.items[1], conf.value>>))
    ELSE ExitReturn(PyDict(<<KeyPrediction, KeyConfidence>>,
                           <<result, PyFloat(0, 1)>>))

\* lines 56-62: the result of the engine shaped into the response.
ShapeResult(result) ==
    IF result.t = "dict" /\ HasKey(result, KeyPrediction)
    THEN ExitReturn(result)
    ELSE IF result.t \in {"list", "tuple"} /\ Len(result.items) >= 2
    THEN LET conf == FloatConv(result.items[2])
         IN  IF conf.raised # "" THEN ExitRaise(conf.raised)
             ELSE ExitReturn(PyDict(<<KeyPrediction, KeyConfidence>>,
                                    <<result.items[1], conf.value>>))
    ELSE ExitReturn(PyDict(<<KeyPrediction, KeyConfidence>>,
                           <<PyStr(Str(result)), PyFloat(0, 1)>>))

\* lines 53-62: the engine's outcome (its value, or what it raised).
AfterEngine(outcome) ==
    IF outcome.raised # "" THEN ExitRaise(outcome.raised)
    ELSE ShapeResult(outcome.value)

Detail500 == "Server error -- check backend/error.log"

LogHeader == "\n\n--- Exception ---\n"

\* log_exc with the file opened "w": what was written before is lost.
log_exc_Truncates(file, exc) == <<LogHeader, exc>>

\* lines 26-31: log_exc appends the header, then the formatted traceback
\* (here: the name of the exception it ends with).
log_exc(file, exc) == file \o <<LogHeader, exc>>

\* Logged without the clause of lines 64-65: every exception is logged and
\* replaced, the HTTPException of line 48 too.
Logged_CatchesAll(exit) == exit.how = "raise"

\* lines 64-68: which except clause takes a raised exception: an
\* HTTPException leaves as it is, anything else is logged and replaced.
Logged(exit) == exit.how = "raise" /\ exit.exc # "HTTPException"

\* line 68: raise HTTPException(status_code=500, detail=...)
Raise500 == ExitHTTPException(500, Detail500)

\* What the framework sends for a handler that returned a value or raised
\* an HTTPException.
ResponseOf(exit) ==
    IF exit.how = "return"
    THEN [status |-> 200, detail |-> "", body |-> exit.body]
    ELSE [status |-> exit.status, detail |-> exit.detail, body |-> PyNone]

\* The engine's outcome for request r.
EngineCall(r, noise) ==
    IF r.stub = NoStub
    THEN predict_image(r.image, model, idx_to_class, preprocess, device, noise)
    ELSE Returned(r.stub)

(***************************************************************************)
(* The state machine                                                       *)
(***************************************************************************)
\* What the process may start from; the host has no accelerator.
Artifacts == [class_map_file : ClassMapFiles, model_file : ModelFiles, cuda : {FALSE}]

Init ==
    /\ phase = "boot"
    /\ fs \in Artifacts
    /\ device = Unset.device
    /\ class_map = Unset.class_map
    /\ idx_to_class = Unset.idx_to_class
    /\ num_classes = Unset.num_classes
    /\ model = Unset.model
    /\ preprocess = Unset.preprocess
    /\ req = [s \in Slots |-> IdleRequest]
    /\ loop = 0
    /\ log = <<>>
    /\ sent500 = 0
    /\ arrivals = 0

\* The process starts: app.py line 10 imports model_loader, whose module
\* body runs once.  An exception leaves the process without an app.
Startup ==
    /\ phase = "boot"
    /\ LET g == ModuleInit(fs)
       IN  IF g.raised # ""
           THEN /\ phase' = "aborted"
                /\ UNCHANGED engine_state
           ELSE /\ phase' = "serving"
                /\ device' = g.device
                /\ class_map' = g.class_map
                /\ idx_to_class' = g.idx_to_class
                /\ num_classes' = g.num_classes
                /\ model' = g.model
                /\ preprocess' = g.preprocess
    /\ UNCHANGED <<fs, req, loop, log, sent500, arrivals>>

\* A request arrives on a free connection slot.
Accept(s, kind, upload, stub) ==
    /\ phase = "serving"
    /\ req[s].pc \in {"idle", "done"}
    /\ arrivals < MaxArrivals
    /\ req' = [req EXCEPT ![s] = [IdleRequest EXCEPT !.kind = kind, !.pc = "reading",
                                                     !.upload = upload, !.stub = stub]]
    /\ arrivals' = arrivals + 1
    /\ UNCHANGED <<phase, fs, engine_state, loop, log, sent500>>

ArriveHome(s) == Accept(s, "home", NoUpload, NoStub)

ArrivePredict(s) == \E u \in Uploads : Accept(s, "predict", u, NoStub)

\* The handler of slot s leaves a stretch of its code by `exit`: into the
\* engine (the loop stays with it), into the except clause of line 66 (the
\* log is written, the raise of line 68 is next), or out with a response.
Leave(s, exit) ==
    IF exit.how = "call"
    THEN /\ req' = [req EXCEPT ![s].pc = "engine", ![s].image = exit.image]
         /\ loop' = s
         /\ UNCHANGED <<log, sent500>>
    ELSE IF Logged(exit)
    THEN /\ log' = log_exc(log, exit.exc)
         /\ req' = [req EXCEPT ![s].pc = "logged"]
         /\ loop' = s
         /\ UNCHANGED sent500
    ELSE /\ req' = [req EXCEPT ![s].pc = "done", ![s].response = ResponseOf(exit)]
         /\ loop' = 0
         /\ UNCHANGED <<log, sent500>>

\* GET /: lines 34-36.
Home(s) ==
    /\ loop = 0
    /\ req[s].kind = "home" /\ req[s].pc = "reading"
    /\ Leave(s, ExitReturn(PyDict(<<KeyStatus>>, <<PyStr(BackendRunning)>>)))
    /\ UNCHANGED <<phase, fs, engine_state, arrivals>>

\* POST /predict/: the coroutine resumes after `await file.read()` when the
\* loop is free and runs lines 46-53 up to the call of the engine.
ReadDone(s) ==
    /\ loop = 0
    /\ req[s].kind = "predict" /\ req[s].pc = "reading"
    /\ LET exit == ReadAndDecode(req[s].upload)
       IN  Leave(s, exit)
    /\ UNCHANGED <<phase, fs, engine_state, arrivals>>

\* predict_image returns or raises, and lines 56-62 run; the handler has
\* held the loop throughout (line 53 is a plain call, not an await).
EngineReturn(s) ==
    /\ loop = s
    /\ req[s].pc = "engine"
    /\ \E noise \in DropoutNoise(model) :
          LET exit == AfterEngine(EngineCall(req[s], noise))
          IN  Leave(s, exit)
    /\ UNCHANGED <<phase, fs, engine_state, arrivals>>

\* The forward pass of line 56 never returns (no timeout is set anywhere).
Hang(s) ==
    /\ loop = s
    /\ req[s].pc = "engine"
    /\ req' = [req EXCEPT ![s].pc = "hung"]
    /\ UNCHANGED <<phase, fs, engine_state, loop, log, sent500, arrivals>>

\* line 68, after log_exc returned.
Respond500(s) ==
    /\ loop = s
    /\ req[s].pc = "logged"
    /\ req' = [req EXCEPT ![s].pc = "done", ![s].response = ResponseOf(Raise500)]
    /\ sent500' = sent500 + 1
    /\ loop' = 0
    /\ UNCHANGED <<phase, fs, engine_state, log, arrivals>>

Next ==
    \/ Startup
    \/ \E s \in Slots :
          \/ ArriveHome(s)
          \/ ArrivePredict(s)
          \/ Home(s)
          \/ ReadDone(s)
          \/ EngineReturn(s)
          \/ Hang(s)
          \/ Respond500(s)

Spec == Init /\ [][Next]_vars

(***************************************************************************)
(* The service over the engines it accepts.  predict shapes whatever the   *)
(* engine returns (lines 56-62), so the engine's value is an input of the  *)
(* handler: the requests of ServiceSpec are served by model_loader or by   *)
(* an engine returning one of EngineValues.                                *)
(***************************************************************************)
Text092 == <<"0", ".", "9", "2">>
TextAbc == <<"a", "b", "c">>
TextPadded == <<" ", "0", ".", "5", " ">>
TextHigh == <<"h", "i", "g", "h">>

EngineValues ==
    { \* a mapping with the prediction field
      PyDict(<<KeyPrediction, KeyConfidence>>, <<PyStr(Rock), PyFloat(92, 100)>>),
      PyDict(<<KeyPrediction>>, <<PyStr(Rock)>>),
      PyDict(<<KeyPrediction, KeyConfidence>>, <<PyInt(7), PyStr(TextHigh)>>),
      \* a list or tuple of two elements or more
      PyTuple(<<PyStr(Rock), PyStr(Text092)>>),
      PyTuple(<<PyStr(Rock), PyFloat(92, 100)>>),
      PyList(<<PyStr(Paper), PyInt(1)>>),
      PyList(<<PyStr(Paper), PyStr(TextPadded)>>),
      PyTuple(<<PyStr(Rock), PyStr(Text092), PyStr(TextAbc)>>),
      PyTuple(<<PyInt(3), PyStr(Text092)>>),
      PyTuple(<<PyStr(Rock), PyStr(TextAbc)>>),
      PyTuple(<<PyStr(Rock), PyNone>>),
      PyList(<<PyStr(Rock), PyStr(<<>>)>>),
      \* anything else
      PyInt(7),
      PyInt(-12),
      PyNone,
      PyStr(TextAbc),
      PyFloat(1, 2),
      PyDict(<<KeyLabel>>, <<PyStr(Rock)>>),
      PyDict(<<>>, <<>>),
      PyTuple(<<PyStr(Rock)>>),
      PyList(<<>>),
      PyTuple(<<>>) }

ImageUpload ==
    [readable |-> TRUE, bytes |-> "image", image |-> [mode |-> "RGB", feat |-> 0]]

\* Artifacts the process starts from: the dense two-label vocabulary, and
\* the one-label vocabulary whose index is 1.
ServingArtifacts ==
    {[class_map_file |-> [state |-> "json", json |-> DenseVocabulary(2)],
      model_file |-> [state |-> "state_dict", out |-> 2], cuda |-> FALSE],
     [class_map_file |-> [state |-> "json", json |-> GapVocabulary],
      model_file |-> [state |-> "state_dict", out |-> 1], cuda |-> FALSE]}

\* The state Startup leaves for one of ServingArtifacts.
ServiceInit ==
    /\ phase = "serving"
    /\ fs \in ServingArtifacts
    /\ device = ModuleInit(fs).device
    /\ class_map = ModuleInit(fs).class_map
    /\ idx_to_class = ModuleInit(fs).idx_to_class
    /\ num_classes = ModuleInit(fs).num_classes
    /\ model = ModuleInit(fs).model
    /\ preprocess = ModuleInit(fs).preprocess
    /\ req = [s \in Slots |-> IdleRequest]
    /\ loop = 0
    /\ log = <<>>
    /\ sent500 = 0
    /\ arrivals = 0

ArriveService(s) ==
    \/ \E u \in Uploads : Accept(s, "predict", u, NoStub)
    \/ \E v \in EngineValues : Accept(s, "predict", ImageUpload, v)

\* The requests of ServiceSpec come one at a time, on slot 1.
ServiceNext ==
    \/ ArriveService(1)
    \/ ReadDone(1)
    \/ EngineReturn(1)
    \/ Respond500(1)

ServiceSpec == ServiceInit /\ [][ServiceNext]_vars

\* The scheduling of the event loop: a handler that can run on the loop
\* does run.  Nothing is assumed of the engine: a call of predict_image may
\* return or hang.
Fairness ==
    \A s \in Slots :
        /\ WF_vars(Home(s))
        /\ WF_vars(ReadDone(s))
        /\ WF_vars(Respond500(s))

LiveSpec == Init /\ [][Next]_vars /\ Fairness

(***************************************************************************)
(* Properties                                                              *)
(***************************************************************************)
Response500 == [status |-> 500, detail |-> Detail500, body |-> PyNone]

Response400 == [status |-> 400, detail |-> "Empty file", body |-> PyNone]

Answered(r) == r.kind = "predict" /\ r.pc = "done"

EmptyUpload(r) == r.kind = "predict" /\ r.upload.readable /\ r.upload.bytes = "empty"

C1_State ==
    \A s \in Slots :
        EmptyUpload(req[s]) =>
            /\ req[s].pc \in {"reading", "done"}
            /\ req[s].pc = "done" => req[s].response = Response400

C1_Step ==
    \A s \in Slots :
        (EmptyUpload(req[s]) /\ req[s].pc = "reading" /\ req'[s].pc # "reading") =>
            /\ req'[s].pc = "done"
            /\ log' = log
            /\ sent500' = sent500
            /\ loop' = loop

\* C1: a POST /predict/ whose payload has zero bytes is answered 400 "Empty
\* file": its handler never reaches the decode or the engine (it goes from
\* reading straight to its response), the 400 is not turned into a 500,
\* and the step that answers it leaves the error log as it was.
C1_EmptyUploadIs400 == []C1_State /\ [][C1_Step]_vars

C1_Witness ==
    \E s \in Slots :
        EmptyUpload(req[s]) /\ req[s].pc = "done" /\ req[s].response.status = 400

IsPair(v) == v.t \in {"list", "tuple"} /\ Len(v.items) >= 2

IsPredictionMapping(v) == v.t = "dict" /\ HasKey(v, KeyPrediction)

\* The second elements float() refuses, among those EngineValues holds.
Unconvertible == {PyStr(TextAbc), PyStr(<<>>), PyNone}

\* Request r meets an exception: the read raises, the bytes are no image,
\* the engine raises (GapVocabulary has no label for index 0, its model's
\* only output row), or float() refuses the second element of a pair.
MeetsException(r) ==
    \/ ~r.upload.readable
    \/ r.upload.bytes = "junk"
    \/ /\ r.upload.bytes = "image"
       /\ r.stub = NoStub
       /\ class_map = GapVocabulary
    \/ /\ r.upload.bytes = "image"
       /\ r.stub # NoStub
       /\ IsPair(r.stub)
       /\ r.stub.items[2] \in Unconvertible

\* C2: a POST /predict/ with a payload that is not empty, whose handling
\* meets an exception (in the read, the decode, the engine or the shaping,
\* a failing float() of a pair's second element included), is answered 500
\* with the one fixed detail: every answer that is not a 200 is that same
\* response, whichever exception it was.
C2_ExceptionsAre500 ==
    \A s \in Slots :
        (Answered(req[s]) /\ ~EmptyUpload(req[s])) =>
            /\ MeetsException(req[s]) => req[s].response = Response500
            /\ req[s].response.status # 200 => req[s].response = Response500

C2_Witness ==
    \E s \in Slots :
        /\ Answered(req[s]) /\ req[s].stub = PyTuple(<<PyStr(Rock), PyStr(TextAbc)>>)
        /\ req[s].response = Response500
        /\ Len(log) = 4
        /\ log[2] = "UnidentifiedImageError" /\ log[4] = "ValueError"

WellFormedBody(b) ==
    /\ b.t = "dict"
    /\ HasKey(b, KeyPrediction) /\ HasKey(b, KeyConfidence)
    /\ DictGet(b, KeyPrediction).t = "str"
    /\ DictGet(b, KeyConfidence).t = "float"

\* C3: every 200 response of POST /predict/ is a mapping with a "prediction"
\* field holding a string and a "confidence" field holding a float,
\* whatever the engine returned.
C3_Every200IsWellFormed ==
    \A s \in Slots :
        (Answered(req[s]) /\ req[s].response.status = 200) =>
            WellFormedBody(req[s].response.body)

PairAnswered(r) == Answered(r) /\ r.stub # NoStub /\ IsPair(r.stub)

\* C4 as claimed: whenever the engine returns a list or tuple of length >= 2
\* the answer is 200, with the first element as prediction and a float as
\* confidence.
C4_PairIsAlways200 ==
    \A s \in Slots :
        PairAnswered(req[s]) =>
            /\ req[s].response.status = 200
            /\ req[s].response.body.t = "dict"
            /\ HasKey(req[s].response.body, KeyPrediction)
            /\ DictGet(req[s].response.body, KeyPrediction) = req[s].stub.items[1]
            /\ HasKey(req[s].response.body, KeyConfidence)
            /\ DictGet(req[s].response.body, KeyConfidence).t = "float"

\* The float each second element of EngineValues' pairs stands for, as
\* numerator and denominator.
ExpectedFloat(x) ==
    CASE x = PyStr(Text092) -> <<23, 25>>
      [] x = PyVal("float", 23, 25, <<>>, <<>>, <<>>) -> <<23, 25>>
      [] x = PyInt(1) -> <<1, 1>>
      [] x = PyStr(TextPadded) -> <<1, 2>>
      [] OTHER -> <<0, 0>>

\* C4, amended: when the engine returns a list or tuple of length >= 2 whose
\* second element float() accepts, the answer is 200 with exactly the fields
\* prediction (the first element) and confidence (the second as a float;
\* ("rock", "0.92") gives 0.92), later elements ignored; when float() refuses
\* the second element the answer is the 500 of C2.
C4_PairIsReshaped ==
    \A s \in Slots :
        PairAnswered(req[s]) =>
            IF req[s].stub.items[2] \in Unconvertible
            THEN req[s].response = Response500
            ELSE /\ req[s].response.status = 200
                 /\ req[s].response.body.t = "dict"
                 /\ req[s].response.body.keys = <<KeyPrediction, KeyConfidence>>
                 /\ req[s].response.body.items[1] = req[s].stub.items[1]
                 /\ req[s].response.body.items[2].t = "float"
                 /\ <<req[s].response.body.items[2].n, req[s].response.body.items[2].d>>
                        = ExpectedFloat(req[s].stub.items[2])

C4_Witness ==
    \E s \in Slots :
        /\ Answered(req[s])
        /\ req[s].stub = PyTuple(<<PyStr(Rock), PyStr(Text092), PyStr(TextAbc)>>)
        /\ req[s].response.status = 200
        /\ sent500 = 0

IsFallback(r) ==
    r.kind = "predict" /\ r.stub # NoStub /\ ~IsPredictionMapping(r.stub) /\ ~IsPair(r.stub)

\* The text str() gives for values of EngineValues, written out.
ExpectedText(x) ==
    CASE x = PyInt(7) -> <<"7">>
      [] x = PyInt(-12) -> <<"-", "1", "2">>
      [] x = PyNone -> <<"N", "o", "n", "e">>
      [] x = PyStr(TextAbc) -> TextAbc
      [] x = PyFloat(1, 2) -> <<"0", ".", "5">>
      [] x = PyDict(<<KeyLabel>>, <<PyStr(Rock)>>) -> <<"{", "'", "l", "a", "b", "e", "l", "'", ":", " ", "'", "r", "o", "c", "k", "'", "}">>
      [] x = PyDict(<<>>, <<>>) -> <<"{", "}">>
      [] x = PyTuple(<<PyStr(Rock)>>) -> <<"(", "'", "r", "o", "c", "k", "'", ",", ")">>
      [] x = PyList(<<>>) -> <<"[", "]">>
      [] x = PyTuple(<<>>) -> <<"(", ")">>
      [] OTHER -> <<"?">>

\* C5: when the engine returns a value that is neither a mapping with the
\* prediction field nor a list or tuple of length >= 2, the handler never
\* enters its except clause and the answer is 200 with prediction the
\* stringified value (7 gives "7", None gives "None") and confidence 0.0.
C5_FallbackIs200 ==
    \A s \in Slots :
        IsFallback(req[s]) =>
            /\ req[s].pc # "logged"
            /\ req[s].pc = "done" =>
                  /\ req[s].response.status = 200
                  /\ req[s].response.body =
                        PyDict(<<KeyPrediction, KeyConfidence>>,
                               <<PyStr(ExpectedText(req[s].stub)),
                                 PyVal("float", 0, 1, <<>>, <<>>, <<>>)>>)

C5_Witness ==
    \E s \in Slots :
        /\ Answered(req[s]) /\ req[s].stub = PyTuple(<<PyStr(Rock)>>)
        /\ req[s].response.status = 200
        /\ log = <<>>

FlatStrToInt(doc) ==
    doc.t = "dict" /\ \A i \in 1..Len(doc.items) : doc.items[i].t = "int"

\* C6: the process serves only if the vocabulary was loaded and is a flat
\* string-to-integer mapping and the weights were loaded with the shape the
\* vocabulary's size gives.
C6_ServesOnlyWellFormed ==
    phase = "serving" =>
        /\ fs.class_map_file.state = "json"
        /\ FlatStrToInt(fs.class_map_file.json)
        /\ fs.model_file.state = "state_dict"
        /\ fs.model_file.out = Len(fs.class_map_file.json.keys)
        /\ model.loaded

ImageAnswered(r) ==
    Answered(r) /\ r.stub = NoStub /\ r.upload.readable /\ r.upload.bytes = "image"

\* C7: for every decodable image, predict_image returns a label that is a
\* key of the loaded vocabulary and a confidence in [0,1], for any vocabulary
\* the process started with (stated here for the vocabularies that are flat
\* string-to-integer mappings, which C6 allows).
C7_LabelIsInVocabulary ==
    \A s \in Slots :
        (ImageAnswered(req[s]) /\ FlatStrToInt(class_map)) =>
            /\ req[s].response.status = 200
            /\ WellFormedBody(req[s].response.body)
            /\ DictGet(req[s].response.body, KeyPrediction).s \in Range(class_map.keys)
            /\ DictGet(req[s].response.body, KeyConfidence).n >= 0
            /\ DictGet(req[s].response.body, KeyConfidence).n
                  <= DictGet(req[s].response.body, KeyConfidence).d

\* C8: two POST /predict/ requests with the identical upload get the
\* identical answer, whatever other requests ran before or between them,
\* and while the process serves the module's globals (device, vocabulary,
\* index-to-label map, model, preprocessing pipeline) are those the import
\* left.
C8_SameImageSameAnswer ==
    /\ phase = "serving" =>
          /\ device = ModuleInit(fs).device
          /\ class_map = ModuleInit(fs).class_map
          /\ idx_to_class = ModuleInit(fs).idx_to_class
          /\ num_classes = ModuleInit(fs).num_classes
          /\ model = ModuleInit(fs).model
          /\ preprocess = ModuleInit(fs).preprocess
    /\ \A s, t \in Slots :
          (Answered(req[s]) /\ Answered(req[t]) /\ req[s].upload = req[t].upload) =>
              req[s].response = req[t].response

C8_Witness ==
    /\ sent500 >= 1
    /\ arrivals = 3
    /\ \E s, t \in Slots :
          /\ s # t
          /\ ImageAnswered(req[s]) /\ ImageAnswered(req[t])
          /\ req[s].upload = req[t].upload
          /\ req[s].upload.image.feat = 1
          /\ req[s].response.status = 200
          /\ num_classes = 2

InExcept == {s \in Slots : req[s].pc = "logged"}

C9_State ==
    /\ Len(log) = 2 * (sent500 + Cardinality(InExcept))
    /\ \A i \in 1..Len(log) :
          IF i % 2 = 1 THEN log[i] = LogHeader ELSE log[i] # LogHeader

C9_Step ==
    /\ Len(log') >= Len(log)
    /\ SubSeq(log', 1, Len(log)) = log
    /\ sent500' # sent500 => (log' = log /\ Len(log) >= 2 * sent500')
    /\ \A s \in Slots :
          (req'[s].pc = "done" /\ req[s].pc # "done" /\ req'[s].response.status # 500)
              => log' = log

\* C9: the error log is append-only and holds one entry per 500 response of
\* POST /predict/ (sent, or about to be: the entry is written before the 500
\* leaves); an entry is the header "--- Exception ---" and then the trace;
\* what was written is never altered; a step that answers 200 or 400 (GET /
\* included) writes nothing.
C9_LogIsAppendOnly == []C9_State /\ [][C9_Step]_vars

C9_Witness ==
    /\ Len(log) = 4
    /\ sent500 = 2
    /\ log[2] # log[4]

\* C10: while one POST /predict/ is stuck in the engine, another request
\* that has arrived (a predict or GET /) is still handled and answered.
C10_OthersAreAnswered ==
    \A a, b \in Slots :
        (req[a].pc = "hung" /\ req[b].pc = "reading") ~> (req[b].pc = "done")

====
